---- MODULE Spec2Model ----
(***************************************************************************)
(* Model of the CSV importer (importer/src/main.rs): a three stage         *)
(* pipeline (directory scanner, CSV parser with one spawned decode task    *)
(* per file, InfluxDB inserter) connected by two bounded mpsc channels,    *)
(* two oneshot completion signals, shared statistics and a JSON cache file *)
(* that is loaded at startup and rewritten after every batch.              *)
(***************************************************************************)
EXTENDS Integers, Sequences, FiniteSets, TLC

\* ------------------------------------------------------------------ bounds
\* Number of process runs over the same directory and cache file.
MaxRuns == 2
\* Largest channel capacity (--buffer-size) drawn at startup; the other one
\* drawn is 1.
MaxBufferSize == 2
\* --parser-threads of the runs modelled: the worker threads of the parser
\* runtime. The runtime runs at most this many tasks at the same instant;
\* it puts no limit on how many tasks are spawned and unfinished.
ParserThreads == 1

\* ------------------------------------------------------------- environment
\* The entries WalkDir yields for the scanned directory, in walk order.
ScanDir == <<"a.csv", "notes.txt", "b.csv">>

\* path.extension() == "csv"
IsCsv(path) == path \in {"a.csv", "b.csv", "gone.csv"}

CsvFiles == {ScanDir[i] : i \in {j \in 1..Len(ScanDir) : IsCsv(ScanDir[j])}}

\* The header row of each file as the csv reader yields it.
FileHeaders(path) ==
    CASE path = "a.csv" -> <<"timestamp", "cpu", "host", "mem", "note">>
      [] path = "b.csv" -> <<"host", "load">>
      [] OTHER -> << >>

\* The rows of each file as the csv reader yields them (raw cells). a.csv
\* has a row with an empty timestamp and a row whose timestamp is no date;
\* b.csv has no timestamp column at all.
FileRows(path) ==
    CASE path = "a.csv" ->
            << <<"2024-01-01T00:00:00Z", "42.5", "node-1", "1e3", "">>,
               <<"", "1", "node-2", "0.5", "x">>,
               <<"not-a-date", "n/a", "node-1", "NaN", " 7">> >>
      [] path = "b.csv" -> << <<"node-9", "0.5">> >>
      [] OTHER -> << >>

\* SHA-256 of the current content of a file, as lowercase hex.
FileDigest(path) ==
    CASE path = "a.csv" -> "sha_a"
      [] path = "b.csv" -> "sha_b"
      [] OTHER -> "sha_none"

IoError == "io_error"

\* calculate_file_hash: the outcomes of one call (Ok(hex digest) or Err).
CalculateFileHash(path) == {FileDigest(path), IoError}

\* FileMetadata
FileMetadata(path, hash, now, count) ==
    [path |-> path, hash |-> hash, last_processed |-> now, records_count |-> count]

\* The cache file: absent, present but not valid JSON, or a valid snapshot.
CacheFile(state, entries) == [state |-> state, entries |-> entries]

EmptyCache == [p \in {} |-> FileMetadata(p, "", 0, 0)]

\* The cache files a first run can find: none; a snapshot with an entry of
\* an older content of a.csv and an entry of a file since deleted; a
\* snapshot of the directory as it is.
InitialCacheFiles ==
    { CacheFile("absent", EmptyCache),
      CacheFile("valid", [p \in {"a.csv", "gone.csv"} |->
          FileMetadata(p, IF p = "a.csv" THEN "sha_stale" ELSE "sha_gone", 0, 2)]),
      CacheFile("valid", [p \in {"a.csv", "b.csv"} |->
          FileMetadata(p, FileDigest(p), 0, IF p = "a.csv" THEN 2 ELSE 0)]) }

\* ------------------------------------------------------------ pure helpers
\* load_cache: Ok(empty) when the file does not exist, Err when it cannot be
\* read as JSON, Ok(mapping) otherwise.
LoadCache(file) ==
    IF file.state = "absent" THEN [ok |-> TRUE, value |-> EmptyCache]
    ELSE IF file.state = "malformed" THEN [ok |-> FALSE, value |-> EmptyCache]
    ELSE [ok |-> TRUE, value |-> file.entries]

\* Result::unwrap_or_default on the result of load_cache.
UnwrapOrDefault(result) == IF result.ok THEN result.value ELSE EmptyCache

\* The scanner consults the cache for a path: force is off and the startup
\* cache has an entry for it. Only then is the fingerprint recomputed.
CacheCandidateIgnoringForce(forceFlag, c, path) == path \in DOMAIN c

CacheCandidate(forceFlag, c, path) == ~forceFlag /\ path \in DOMAIN c

\* The scanner's skip test; hashResult is the outcome of calculate_file_hash
\* ("none" when it was not called).
ShouldSkipIgnoringHash(forceFlag, c, path, hashResult) ==
    CacheCandidate(forceFlag, c, path)

ShouldSkip(forceFlag, c, path, hashResult) ==
    /\ CacheCandidate(forceFlag, c, path)
    /\ hashResult = c[path].hash

\* One csv row as a DynamicRecord: the cell under the header "timestamp" is
\* the timestamp ("" when there is none), every other header maps to its
\* cell (a later duplicate header overwrites an earlier one); cells beyond
\* the headers are ignored. row is the row's position in the file.
DynamicRecord(headers, cells, row) ==
    LET cols == {i \in 1..Len(cells) : i <= Len(headers)}
        tsCols == {i \in cols : headers[i] = "timestamp"}
        last(S) == CHOOSE i \in S : \A j \in S : j <= i
        names == {headers[i] : i \in cols \ tsCols}
    IN [row |-> row,
        timestamp |-> IF tsCols = {} THEN "" ELSE cells[last(tsCols)],
        fields |-> [n \in names |-> cells[last({i \in cols : headers[i] = n})]]]

\* parse_csv_dynamic: records with an empty timestamp are dropped, the
\* others are pushed in row order.
ParseCsvDynamicKeepingAll(headers, rows) ==
    [i \in 1..Len(rows) |-> DynamicRecord(headers, rows[i], i)]

ParseCsvDynamicReversed(headers, rows) ==
    LET kept == SelectSeq([i \in 1..Len(rows) |-> DynamicRecord(headers, rows[i], i)],
                          LAMBDA r : r.timestamp # "")
    IN [i \in 1..Len(kept) |-> kept[Len(kept) + 1 - i]]

ParseCsvDynamic(headers, rows) ==
    SelectSeq([i \in 1..Len(rows) |-> DynamicRecord(headers, rows[i], i)],
              LAMBDA r : r.timestamp # "")

\* chrono::DateTime::parse_from_rfc3339 on the timestamps that occur: the
\* strings it accepts, and those of them whose instant timestamp_nanos_opt
\* can represent (years 1677 to 2262).
Rfc3339Timestamps ==
    {"2024-01-01T00:00:00Z", "2024-01-02T00:00:00Z", "2500-01-01T00:00:00Z"}

NanosRepresentable == {"2024-01-01T00:00:00Z", "2024-01-02T00:00:00Z"}

\* str::parse::<f64> on the cell values that occur: the strings it accepts.
F64Literals == {"42.5", "1", "0.5", "1e3", "NaN"}

ParsesAsF64(value) == value \in F64Literals

\* influxdb::Timestamp
Timestamp(precision, instant) == [precision |-> precision, instant |-> instant]

\* DynamicRecord::into_query, timestamp part: the parsed instant in
\* nanoseconds, in seconds when nanoseconds overflow, the current time when
\* the timestamp does not parse.
QueryTimestamp(timestamp, now) ==
    IF timestamp \in Rfc3339Timestamps
    THEN IF timestamp \in NanosRepresentable
         THEN Timestamp("Nanoseconds", timestamp)
         ELSE Timestamp("Seconds", timestamp)
    ELSE Timestamp("Nanoseconds", now)

\* DynamicRecord::into_query: a WriteQuery with every column either as a
\* numeric field or as a tag.
IntoQueryAllTags(record, measurement, now) ==
    [measurement |-> measurement,
     timestamp |-> QueryTimestamp(record.timestamp, now),
     fields |-> [k \in {} |-> <<"f64", "">>],
     tags |-> record.fields]

IntoQuery(record, measurement, now) ==
    LET numeric == {k \in DOMAIN record.fields : ParsesAsF64(record.fields[k])}
    IN [measurement |-> measurement,
        timestamp |-> QueryTimestamp(record.timestamp, now),
        fields |-> [k \in numeric |-> <<"f64", record.fields[k]>>],
        tags |-> [k \in DOMAIN record.fields \ numeric |-> record.fields[k]]]

\* HashMap::insert of the entry the inserter builds for a finished batch.
CacheInsertNoHash(c, path, hash, now, count) ==
    [p \in DOMAIN c \cup {path} |->
        IF p = path THEN FileMetadata(path, "", now, count) ELSE c[p]]

CacheInsertNoCount(c, path, hash, now, count) ==
    [p \in DOMAIN c \cup {path} |->
        IF p = path THEN FileMetadata(path, hash, now, 0) ELSE c[p]]

CacheInsertReplacingAll(c, path, hash, now, count) ==
    [p \in {path} |-> FileMetadata(path, hash, now, count)]

CacheInsert(c, path, hash, now, count) ==
    [p \in DOMAIN c \cup {path} |->
        IF p = path THEN FileMetadata(path, hash, now, count) ELSE c[p]]

\* A oneshot receiver's await returns once the sender has sent or is gone.
OneshotResolvedAlways(signal) == TRUE

OneshotResolved(signal) == signal \in {"sent", "dropped"}

\* ------------------------------------------------------------------- state
VARIABLES
    run,              \* index of the current process run (also the clock)
    pc_main,          \* main: "start", "scan", "await_parser", "await_db", "done"
    force,            \* args.force
    buffer_size,      \* args.buffer_size
    disk,             \* content of the cache file
    cache,            \* the cache loaded at startup (shared, read-only)
    stats,            \* ImportStats
    scanIdx,          \* position of the WalkDir iterator
    scanPending,      \* path the scanner is sending, or "" when none
    file_tx,          \* TRUE while the file channel's sender is alive
    fileQ,            \* buffer of the file channel
    recordQ,          \* buffer of the record channel
    pc_parser,        \* Stage 2: "idle", "loop", "signalled", "exited"
    tasks,            \* decode task per path: "none", "running", "sending", "done"
    taskBatch,        \* the batch a decode task is sending
    pc_db,            \* Stage 3: "idle", "init", "recv", "write", "save",
                      \*          "finalsave", "done"
    updated_cache,    \* Stage 3's private copy of the cache
    dbBatch,          \* the batch Stage 3 is writing
    dbIdx,            \* next record of dbBatch to submit
    successful,       \* per batch counters of Stage 3
    failed,
    parser_complete,  \* oneshot: "pending", "sent", "dropped"
    db_complete,
    hist              \* history of the run, read by the properties only

mainVars == <<run, pc_main, force, buffer_size, cache>>
scanVars == <<scanIdx, scanPending, file_tx>>
parserVars == <<pc_parser, tasks, taskBatch>>
dbVars == <<pc_db, updated_cache, dbBatch, dbIdx, successful, failed>>
sigVars == <<parser_complete, db_complete>>
vars == <<run, pc_main, force, buffer_size, disk, cache, stats, scanIdx,
          scanPending, file_tx, fileQ, recordQ, pc_parser, tasks, taskBatch,
          pc_db, updated_cache, dbBatch, dbIdx, successful, failed,
          parser_complete, db_complete, hist>>

NoBatch == [records |-> << >>, path |-> "", hash |-> ""]

\* ImportStats::default()
ImportStatsDefault ==
    [files_found |-> 0, files_processed |-> 0, files_skipped |-> 0,
     records_processed |-> 0, successful_inserts |-> 0, failed_inserts |-> 0]

\* What the current run has done so far, and how the previous run ended.
\* Read by the properties only; reset when a process starts.
HistDefault ==
    [loadedFrom |-> "none",                       \* cache file state at load_cache
     scanHash |-> [p \in CsvFiles |-> "none"],    \* scanner's hash outcome
     skipped |-> {},                              \* paths the scanner skipped
     enqueued |-> [p \in CsvFiles |-> 0],         \* sends onto the file channel
     pushed |-> {},                               \* <<path, hash, length>> of
                                                  \* every batch sent
     lost |-> {},                                 \* paths whose send failed
     decodeFailed |-> {},                         \* paths whose hash or parse
                                                  \* failed in a decode task
     written |-> [p \in CsvFiles |-> 0],          \* client.query calls per path
     log |-> [p \in CsvFiles |-> << >>],          \* and what they submitted
     sunk |-> {},                                 \* batches Stage 3 finished
     saveFailed |-> {},                           \* those whose own save_cache
                                                  \* returned an error
     lastSave |-> "none",                         \* outcome of the latest
                                                  \* save_cache: ok or failed
     report |-> ImportStatsDefault,               \* counters read for the report
     reported |-> FALSE,
     prevPersisted |-> FALSE,                     \* the previous run returned
                                                  \* with its snapshot on disk
     prevSunk |-> {},                             \* and finished these batches
     prevExpect |-> {},                           \* after a crash: the entries
                                                  \* the crashed run had loaded
                                                  \* or finished, less the batch
                                                  \* in flight
     crashLost |-> {}]                            \* those of prevExpect missing
                                                  \* from the cache loaded next

Init ==
    /\ run = 1
    /\ pc_main = "start"
    /\ force \in BOOLEAN
    /\ buffer_size \in {1, MaxBufferSize}
    /\ disk \in InitialCacheFiles
    /\ cache = EmptyCache
    /\ stats = ImportStatsDefault
    /\ scanIdx = 1
    /\ scanPending = ""
    /\ file_tx = FALSE
    /\ fileQ = << >>
    /\ recordQ = << >>
    /\ pc_parser = "idle"
    /\ tasks = [p \in CsvFiles |-> "none"]
    /\ taskBatch = [p \in CsvFiles |-> NoBatch]
    /\ pc_db = "idle"
    /\ updated_cache = EmptyCache
    /\ dbBatch = NoBatch
    /\ dbIdx = 1
    /\ successful = 0
    /\ failed = 0
    /\ parser_complete = "pending"
    /\ db_complete = "pending"
    /\ hist = HistDefault

\* ------------------------------------------------------------ channel state
\* The file channel's receiver lives in the Stage 2 task until it returns.
FileRxDropped == pc_parser = "exited"

\* The record channel's receiver lives in the Stage 3 task until it returns.
RecordRxDropped == pc_db = "done"

\* Live senders of the record channel: Stage 2's own record_tx plus the
\* clone every unfinished decode task holds.
RecordSendersParserOnly(parserPc, taskStates) ==
    IF parserPc \in {"loop", "signalled"} THEN 1 ELSE 0

RecordSendersLeaked(parserPc, taskStates) ==
    1 + Cardinality({p \in DOMAIN taskStates : taskStates[p] \in {"running", "sending"}})

RecordSendersTasksOnly(parserPc, taskStates) ==
    Cardinality({p \in DOMAIN taskStates : taskStates[p] \in {"running", "sending"}})

RecordSenders(parserPc, taskStates) ==
    (IF parserPc \in {"loop", "signalled"} THEN 1 ELSE 0)
    + Cardinality({p \in DOMAIN taskStates : taskStates[p] \in {"running", "sending"}})

\* mpsc::channel(capacity): a send completes only while the buffer holds
\* fewer than capacity items, and waits otherwise.
HasCapacityAlways(queue, capacity) == TRUE

HasCapacity(queue, capacity) == Len(queue) < capacity

\* recv() returns None: every sender dropped and the buffer empty.
ChannelClosedWhenEmpty(queue, senders) == queue = << >>

ChannelClosedIgnoringBuffer(queue, senders) == senders = 0

ChannelClosed(queue, senders) == queue = << >> /\ senders = 0

\* ------------------------------------------------------------------- main
\* main up to the scanner block: load the cache, create the channels and the
\* completion signals, spawn Stage 3 and Stage 2.
Startup ==
    /\ pc_main = "start"
    /\ cache' = UnwrapOrDefault(LoadCache(disk))
    /\ file_tx' = TRUE
    /\ pc_parser' = "loop"
    /\ pc_db' = "init"
    /\ pc_main' = "scan"
    /\ hist' = [hist EXCEPT !.loadedFrom = disk.state,
                            !.prevExpect = {},
                            !.crashLost = hist.prevExpect \ DOMAIN cache']
    /\ UNCHANGED <<run, force, buffer_size, disk, stats, scanIdx, scanPending,
                   fileQ, recordQ, tasks, taskBatch, updated_cache, dbBatch,
                   dbIdx, successful, failed, parser_complete, db_complete>>

\* One iteration of the WalkDir loop up to the send.
ScanEntry ==
    /\ pc_main = "scan"
    /\ scanPending = ""
    /\ scanIdx <= Len(ScanDir)
    /\ LET path == ScanDir[scanIdx] IN
       IF ~IsCsv(path)
       THEN /\ scanIdx' = scanIdx + 1
            /\ UNCHANGED <<stats, scanPending, hist>>
       ELSE \E h \in (IF CacheCandidate(force, cache, path)
                      THEN CalculateFileHash(path) ELSE {"none"}) :
              IF ShouldSkip(force, cache, path, h)
              THEN /\ stats' = [stats EXCEPT !.files_found = @ + 1,
                                             !.files_skipped = @ + 1]
                   /\ scanIdx' = scanIdx + 1
                   /\ hist' = [hist EXCEPT !.scanHash[path] = h,
                                           !.skipped = @ \cup {path}]
                   /\ UNCHANGED scanPending
              ELSE /\ stats' = [stats EXCEPT !.files_found = @ + 1]
                   /\ scanPending' = path
                   /\ hist' = [hist EXCEPT !.scanHash[path] = h]
                   /\ UNCHANGED scanIdx
    /\ UNCHANGED <<run, pc_main, force, buffer_size, disk, cache, file_tx, fileQ,
                   recordQ, parserVars, dbVars, sigVars>>

\* file_tx.send(path).await: waits for room; an error (receiver gone) breaks
\* the loop.
ScanSend ==
    /\ pc_main = "scan"
    /\ scanPending # ""
    /\ IF FileRxDropped
       THEN /\ scanIdx' = Len(ScanDir) + 1
            /\ UNCHANGED <<fileQ, hist>>
       ELSE /\ HasCapacity(fileQ, buffer_size)
            /\ fileQ' = Append(fileQ, scanPending)
            /\ scanIdx' = scanIdx + 1
            /\ hist' = [hist EXCEPT !.enqueued[scanPending] = @ + 1]
    /\ scanPending' = ""
    /\ UNCHANGED <<run, pc_main, force, buffer_size, disk, cache, stats, file_tx,
                   recordQ, parserVars, dbVars, sigVars>>

\* End of the walk: drop(file_tx).
ScanFinish ==
    /\ pc_main = "scan"
    /\ scanPending = ""
    /\ scanIdx > Len(ScanDir)
    /\ file_tx' = FALSE
    /\ pc_main' = "await_parser"
    /\ UNCHANGED <<run, force, buffer_size, disk, cache, stats, scanIdx,
                   scanPending, fileQ, recordQ, parserVars, dbVars, sigVars, hist>>

\* parser_complete_rx.await
AwaitParser ==
    /\ pc_main = "await_parser"
    /\ OneshotResolved(parser_complete)
    /\ pc_main' = "await_db"
    /\ UNCHANGED <<run, force, buffer_size, disk, cache, stats, scanVars, fileQ,
                   recordQ, parserVars, dbVars, sigVars, hist>>

\* db_complete_rx.await, then main returns.
AwaitDb ==
    /\ pc_main = "await_db"
    /\ OneshotResolved(db_complete)
    /\ pc_main' = "done"
    /\ UNCHANGED <<run, force, buffer_size, disk, cache, stats, scanVars, fileQ,
                   recordQ, parserVars, dbVars, sigVars, hist>>

\* ---------------------------------------------------------------- Stage 2
\* One iteration of the Stage 2 loop: file_rx.recv() yields a path, the
\* counter is bumped and a decode task is spawned (never joined).
ParserRecv ==
    /\ pc_parser = "loop"
    /\ fileQ # << >>
    /\ LET path == Head(fileQ) IN
       /\ fileQ' = Tail(fileQ)
       /\ stats' = [stats EXCEPT !.files_processed = @ + 1]
       /\ tasks' = [tasks EXCEPT ![path] = "running"]
    /\ UNCHANGED <<mainVars, disk, scanVars, recordQ, pc_parser, taskBatch,
                   dbVars, sigVars, hist>>

\* file_rx.recv() yields None: "CSV Parser finished", parser_complete_tx.send.
ParserSignal ==
    /\ pc_parser = "loop"
    /\ ChannelClosed(fileQ, IF file_tx THEN 1 ELSE 0)
    /\ parser_complete' = "sent"
    /\ pc_parser' = "signalled"
    /\ UNCHANGED <<mainVars, disk, stats, scanVars, fileQ, recordQ, tasks,
                   taskBatch, dbVars, db_complete, hist>>

\* Stage 2 returns: its record_tx and file_rx are dropped.
ParserExit ==
    /\ pc_parser = "signalled"
    /\ pc_parser' = "exited"
    /\ UNCHANGED <<mainVars, disk, stats, scanVars, fileQ, recordQ, tasks,
                   taskBatch, dbVars, sigVars, hist>>

\* The two matches of a decode task: a hash error returns, a parse error is
\* logged; only a hash and a parsed vector make a batch.
DecodeOutcomeEmptyOnError(h, parsed, records) ==
    IF h = IoError THEN [ok |-> FALSE, records |-> << >>]
    ELSE IF ~parsed THEN [ok |-> TRUE, records |-> << >>]
    ELSE [ok |-> TRUE, records |-> records]

DecodeOutcome(h, parsed, records) ==
    IF h = IoError \/ ~parsed
    THEN [ok |-> FALSE, records |-> << >>]
    ELSE [ok |-> TRUE, records |-> records]

\* A decode task up to its send: hash, parse, count the records.
TaskDecode(path) ==
    /\ tasks[path] = "running"
    /\ \E h \in CalculateFileHash(path), parsed \in BOOLEAN :
          LET out == DecodeOutcome(h, parsed,
                         ParseCsvDynamic(FileHeaders(path), FileRows(path)))
          IN /\ IF ~out.ok
                THEN /\ tasks' = [tasks EXCEPT ![path] = "done"]
                     /\ UNCHANGED <<stats, taskBatch>>
                ELSE /\ stats' = [stats EXCEPT
                                    !.records_processed = @ + Len(out.records)]
                     /\ taskBatch' = [taskBatch EXCEPT ![path] =
                            [records |-> out.records, path |-> path, hash |-> h]]
                     /\ tasks' = [tasks EXCEPT ![path] = "sending"]
             /\ hist' = IF h = IoError \/ ~parsed
                        THEN [hist EXCEPT !.decodeFailed = @ \cup {path}]
                        ELSE hist
    /\ UNCHANGED <<mainVars, disk, scanVars, fileQ, recordQ, pc_parser, dbVars,
                   sigVars>>

\* record_tx.send(batch).await in a decode task; the task then ends and its
\* clone of record_tx is dropped.
TaskSend(path) ==
    /\ tasks[path] = "sending"
    /\ IF RecordRxDropped
       THEN /\ hist' = [hist EXCEPT !.lost = @ \cup {path}]
            /\ UNCHANGED recordQ
       ELSE /\ HasCapacity(recordQ, buffer_size)
            /\ recordQ' = Append(recordQ, taskBatch[path])
            /\ hist' = [hist EXCEPT !.pushed = @ \cup
                   {<<path, taskBatch[path].hash, Len(taskBatch[path].records)>>}]
    /\ tasks' = [tasks EXCEPT ![path] = "done"]
    /\ taskBatch' = [taskBatch EXCEPT ![path] = NoBatch]
    /\ UNCHANGED <<mainVars, disk, stats, scanVars, fileQ, pc_parser, dbVars,
                   sigVars>>

\* ---------------------------------------------------------------- Stage 3
\* Start of the Stage 3 task: updated_cache = (*db_cache).clone().
DbStart ==
    /\ pc_db = "init"
    /\ updated_cache' = cache
    /\ pc_db' = "recv"
    /\ UNCHANGED <<mainVars, disk, stats, scanVars, fileQ, recordQ, parserVars,
                   dbBatch, dbIdx, successful, failed, sigVars, hist>>

\* record_rx.recv() yields a batch.
DbRecv ==
    /\ pc_db = "recv"
    /\ recordQ # << >>
    /\ dbBatch' = Head(recordQ)
    /\ recordQ' = Tail(recordQ)
    /\ dbIdx' = 1
    /\ successful' = 0
    /\ failed' = 0
    /\ pc_db' = "write"
    /\ UNCHANGED <<mainVars, disk, stats, scanVars, fileQ, parserVars,
                   updated_cache, sigVars, hist>>

\* The match on client.query's result: one of the batch's two counters is
\* bumped.
QueryOutcomeDroppingErrors(counts, ok) ==
    IF ok THEN [counts EXCEPT !.successful = @ + 1] ELSE counts

QueryOutcome(counts, ok) ==
    IF ok THEN [counts EXCEPT !.successful = @ + 1]
          ELSE [counts EXCEPT !.failed = @ + 1]

\* client.query(record.into_query(..)).await for the next record.
DbWrite ==
    /\ pc_db = "write"
    /\ dbIdx <= Len(dbBatch.records)
    /\ \E ok \in BOOLEAN :
          LET counts == QueryOutcome([successful |-> successful,
                                      failed |-> failed], ok)
          IN /\ successful' = counts.successful
             /\ failed' = counts.failed
    /\ dbIdx' = dbIdx + 1
    /\ hist' = [hist EXCEPT
                  !.written[dbBatch.path] = @ + 1,
                  !.log[dbBatch.path] = Append(@,
                      [row |-> dbBatch.records[dbIdx].row,
                       query |-> IntoQuery(dbBatch.records[dbIdx], "stats", run)])]
    /\ UNCHANGED <<mainVars, disk, stats, scanVars, fileQ, recordQ, parserVars,
                   pc_db, updated_cache, dbBatch, sigVars>>

\* save_cache after File::create: serde_json::to_writer_pretty writes the
\* whole mapping, or fails and leaves a partial file.
SaveCacheWriteNothing(c, ok) == CacheFile("valid", EmptyCache)

SaveCacheWrite(c, ok) ==
    IF ok THEN CacheFile("valid", c) ELSE CacheFile("malformed", EmptyCache)

\* After the last record: statistics, cache insert, and save_cache up to
\* File::create, which truncates the cache file (or fails and leaves it).
DbFinishBatch ==
    /\ pc_db = "write"
    /\ dbIdx > Len(dbBatch.records)
    /\ stats' = [stats EXCEPT !.successful_inserts = @ + successful,
                              !.failed_inserts = @ + failed]
    /\ updated_cache' = CacheInsert(updated_cache, dbBatch.path, dbBatch.hash,
                                    run, successful + failed)
    /\ \E created \in BOOLEAN :
          IF created
          THEN /\ disk' = CacheFile("malformed", EmptyCache)
               /\ pc_db' = "save"
               /\ hist' = [hist EXCEPT !.sunk = @ \cup {dbBatch.path}]
               /\ UNCHANGED <<dbBatch, dbIdx, successful, failed>>
          ELSE /\ disk' = disk
               /\ pc_db' = "recv"
               /\ dbBatch' = NoBatch
               /\ dbIdx' = 1
               /\ successful' = 0
               /\ failed' = 0
               /\ hist' = [hist EXCEPT !.sunk = @ \cup {dbBatch.path},
                                       !.saveFailed = @ \cup {dbBatch.path},
                                       !.lastSave = "failed"]
    /\ UNCHANGED <<mainVars, scanVars, fileQ, recordQ, parserVars, sigVars>>

\* The write of the per-batch save_cache; its error is logged and the loop
\* goes on to the next recv.
DbSaveWrite ==
    /\ pc_db = "save"
    /\ \E ok \in BOOLEAN :
          /\ disk' = SaveCacheWrite(updated_cache, ok)
          /\ hist' = IF ok THEN [hist EXCEPT !.lastSave = "ok"]
                     ELSE [hist EXCEPT !.saveFailed = @ \cup {dbBatch.path},
                                       !.lastSave = "failed"]
    /\ pc_db' = "recv"
    /\ dbBatch' = NoBatch
    /\ dbIdx' = 1
    /\ successful' = 0
    /\ failed' = 0
    /\ UNCHANGED <<mainVars, stats, scanVars, fileQ, recordQ, parserVars,
                   updated_cache, sigVars>>

\* record_rx.recv() yields None: the final report is logged and the final
\* save_cache starts.
DbReport ==
    /\ pc_db = "recv"
    /\ ChannelClosed(recordQ, RecordSenders(pc_parser, tasks))
    /\ \E created \in BOOLEAN :
          IF created
          THEN /\ disk' = CacheFile("malformed", EmptyCache)
               /\ pc_db' = "finalsave"
               /\ hist' = [hist EXCEPT !.report = stats, !.reported = TRUE]
          ELSE /\ disk' = disk
               /\ pc_db' = "signal"
               /\ hist' = [hist EXCEPT !.report = stats, !.reported = TRUE,
                                       !.lastSave = "failed"]
    /\ UNCHANGED <<mainVars, stats, scanVars, fileQ, recordQ, parserVars,
                   updated_cache, dbBatch, dbIdx, successful, failed, sigVars>>

\* The write of the final save_cache.
DbFinalSaveWrite ==
    /\ pc_db = "finalsave"
    /\ \E ok \in BOOLEAN :
          /\ disk' = SaveCacheWrite(updated_cache, ok)
          /\ hist' = [hist EXCEPT !.lastSave = IF ok THEN "ok" ELSE "failed"]
    /\ pc_db' = "signal"
    /\ UNCHANGED <<mainVars, stats, scanVars, fileQ, recordQ, parserVars,
                   updated_cache, dbBatch, dbIdx, successful, failed, sigVars>>

\* db_complete_tx.send(()); the Stage 3 task returns.
DbSignal ==
    /\ pc_db = "signal"
    /\ db_complete' = "sent"
    /\ pc_db' = "done"
    /\ UNCHANGED <<mainVars, disk, stats, scanVars, fileQ, recordQ, parserVars,
                   updated_cache, dbBatch, dbIdx, successful, failed,
                   parser_complete, hist>>

\* ------------------------------------------------------------ process life
\* The file whose batch Stage 3 has received and not yet finished saving.
InFlight == IF pc_db \in {"write", "save"} THEN {dbBatch.path} ELSE {}

\* A new process over the same directory and cache file: everything in
\* memory is gone, the cache file is as the previous process left it.
StartProcess(how) ==
    /\ run < MaxRuns
    /\ run' = run + 1
    /\ pc_main' = "start"
    /\ force' \in BOOLEAN
    /\ cache' = EmptyCache
    /\ stats' = ImportStatsDefault
    /\ scanIdx' = 1
    /\ scanPending' = ""
    /\ file_tx' = FALSE
    /\ fileQ' = << >>
    /\ recordQ' = << >>
    /\ pc_parser' = "idle"
    /\ tasks' = [p \in CsvFiles |-> "none"]
    /\ taskBatch' = [p \in CsvFiles |-> NoBatch]
    /\ pc_db' = "idle"
    /\ updated_cache' = EmptyCache
    /\ dbBatch' = NoBatch
    /\ dbIdx' = 1
    /\ successful' = 0
    /\ failed' = 0
    /\ parser_complete' = "pending"
    /\ db_complete' = "pending"
    /\ hist' = [HistDefault EXCEPT
                  !.prevPersisted = (how = "done" /\ disk = CacheFile("valid", updated_cache)),
                  !.prevSunk = IF how = "done" /\ disk = CacheFile("valid", updated_cache)
                               THEN hist.sunk ELSE {},
                  !.prevExpect = IF how = "crashed"
                                 THEN (DOMAIN cache \cup hist.sunk) \ InFlight
                                 ELSE {}]
    /\ UNCHANGED <<buffer_size, disk>>

\* The process is killed at any point of a run.
Crash ==
    /\ pc_main \in {"scan", "await_parser", "await_db"}
    /\ StartProcess("crashed")

\* The importer is run again after a run that returned.
Rerun ==
    /\ pc_main = "done"
    /\ StartProcess("done")

Next ==
    \/ Startup
    \/ ScanEntry
    \/ ScanSend
    \/ ScanFinish
    \/ AwaitParser
    \/ AwaitDb
    \/ ParserRecv
    \/ ParserSignal
    \/ ParserExit
    \/ \E path \in CsvFiles : TaskDecode(path)
    \/ \E path \in CsvFiles : TaskSend(path)
    \/ DbStart
    \/ DbRecv
    \/ DbWrite
    \/ DbFinishBatch
    \/ DbSaveWrite
    \/ DbReport
    \/ DbFinalSaveWrite
    \/ DbSignal
    \/ Crash
    \/ Rerun

Spec == Init /\ [][Next]_vars

\* One process run, without crashes and restarts.
RunNext ==
    \/ Startup
    \/ ScanEntry
    \/ ScanSend
    \/ ScanFinish
    \/ AwaitParser
    \/ AwaitDb
    \/ ParserRecv
    \/ ParserSignal
    \/ ParserExit
    \/ \E path \in CsvFiles : TaskDecode(path)
    \/ \E path \in CsvFiles : TaskSend(path)
    \/ DbStart
    \/ DbRecv
    \/ DbWrite
    \/ DbFinishBatch
    \/ DbSaveWrite
    \/ DbReport
    \/ DbFinalSaveWrite
    \/ DbSignal

\* main's thread and the three runtimes' workers keep running every task
\* that can take a step.
Fairness ==
    /\ WF_vars(Startup \/ ScanEntry \/ ScanSend \/ ScanFinish \/ AwaitParser \/ AwaitDb)
    /\ WF_vars(ParserRecv \/ ParserSignal \/ ParserExit)
    /\ \A path \in CsvFiles : WF_vars(TaskDecode(path) \/ TaskSend(path))
    /\ WF_vars(DbStart \/ DbRecv \/ DbWrite \/ DbFinishBatch \/ DbSaveWrite
               \/ DbReport \/ DbFinalSaveWrite \/ DbSignal)

FairSpec == Init /\ [][RunNext]_vars /\ Fairness

\* ------------------------------------------------------------- properties
DecodeTasksInFlight == {p \in CsvFiles : tasks[p] \in {"running", "sending"}}

PushedPaths == {b[1] : b \in hist.pushed}

TotalWritten == hist.written["a.csv"] + hist.written["b.csv"]

\* C1: main reaches Done only after the walk has finished and the file
\* channel's sender is dropped, and after both Stage 2 and Stage 3 have sent
\* their completion signals.
C1_DoneOnlyAfterBothSignals ==
    pc_main = "done" =>
        /\ scanIdx > Len(ScanDir)
        /\ ~file_tx
        /\ parser_complete = "sent"
        /\ db_complete = "sent"

C1_Witness ==
    /\ pc_main = "done"
    /\ stats.files_processed = 2
    /\ stats.successful_inserts > 0

\* C2: Stage 2 has sent its completion signal only if the file channel is
\* closed and empty and no decode task is still running or waiting to push
\* its batch.
C2_ParserSignalsAfterDecodeTasks ==
    parser_complete = "sent" =>
        /\ ~file_tx
        /\ fileQ = << >>
        /\ DecodeTasksInFlight = {}

\* C3: Stage 3 sees the record channel closed only after the file channel
\* is closed and drained and every decode task has finished, and no decode
\* task's send ever fails, so no decoded batch is lost.
C3_RecordChannelClosesLast ==
    /\ hist.lost = {}
    /\ pc_db \in {"finalsave", "signal", "done"} =>
          /\ ~file_tx
          /\ fileQ = << >>
          /\ pc_parser = "exited"
          /\ DecodeTasksInFlight = {}

C3_Witness ==
    /\ pc_db = "done"
    /\ PushedPaths = CsvFiles

\* C4: when Stage 3 emits the final report and when it has signalled, the
\* record channel is closed and drained, and every batch ever pushed has had
\* each of its records submitted, its cache entry inserted into the
\* in-memory cache and its save attempted.
C4_ReportAfterEveryBatchSunk ==
    (hist.reported \/ db_complete = "sent") =>
        /\ recordQ = << >>
        /\ RecordSenders(pc_parser, tasks) = 0
        /\ \A b \in hist.pushed :
              /\ hist.written[b[1]] = b[3]
              /\ b[1] \in hist.sunk
              /\ b[1] \in DOMAIN updated_cache
              /\ updated_cache[b[1]] = FileMetadata(b[1], b[2], run, b[3])
        /\ pc_db \in {"finalsave", "signal", "done"}

C4_Witness ==
    /\ db_complete = "sent"
    /\ PushedPaths = CsvFiles
    /\ stats.failed_inserts > 0

\* C5: under fair scheduling every run reaches Done, whatever the directory
\* content, the capacity and the failures drawn on the way.
C5_EventuallyDone == <>(pc_main = "done")

C5_Witness ==
    /\ pc_main = "done"
    /\ buffer_size = 1
    /\ stats.files_processed = 2
    /\ stats.records_processed = 0

\* A run that follows a run which returned with its final snapshot on disk,
\* is not forced, and has itself returned.
SecondRunDone ==
    /\ pc_main = "done"
    /\ hist.prevPersisted
    /\ ~force

EntryWrittenThisRun(p) ==
    /\ p \in DOMAIN updated_cache
    /\ updated_cache[p].last_processed = run

\* C7 as stated: with force set nothing is skipped, every file found is
\* enqueued, and at Done the cache holds for every file found an entry
\* written during this run.
C7_ForceRewritesEveryEntry ==
    force =>
        /\ stats.files_skipped = 0
        /\ pc_main = "done" =>
              \A p \in CsvFiles : hist.enqueued[p] = 1 /\ EntryWrittenThisRun(p)

\* C7 amended: with force set nothing is skipped and every file found is
\* enqueued once whatever the cache holds; at Done the cache holds an entry
\* written during this run (fingerprint and count of the batch, this run's
\* time) for exactly the files whose hash and decode succeeded in Stage 2,
\* and for every other file what was loaded at startup.
C7_ForceRewritesDecodedEntries ==
    force =>
        /\ stats.files_skipped = 0
        /\ hist.skipped = {}
        /\ pc_main = "done" =>
              /\ \A p \in CsvFiles : hist.enqueued[p] = 1
              /\ \A b \in hist.pushed :
                    updated_cache[b[1]] = FileMetadata(b[1], b[2], run, b[3])
              /\ \A p \in (DOMAIN updated_cache \cup DOMAIN cache) \ PushedPaths :
                    /\ p \in DOMAIN cache
                    /\ p \in DOMAIN updated_cache
                    /\ updated_cache[p] = cache[p]

C7_Witness ==
    /\ force
    /\ pc_main = "done"
    /\ "a.csv" \in DOMAIN cache
    /\ cache["a.csv"].hash = FileDigest("a.csv")
    /\ PushedPaths = CsvFiles

\* Position of a path in the walk.
WalkPos(p) == CHOOSE i \in 1..Len(ScanDir) : ScanDir[i] = p

\* Files whose loop iteration has finished / has at least counted the file.
ScanDecided == {p \in CsvFiles : WalkPos(p) < scanIdx}
ScanFound == {p \in CsvFiles : WalkPos(p) < scanIdx \/ scanPending = p}

\* C8: every csv file the walk has reached is counted in files found; it
\* is skipped (counted in files skipped, never enqueued) iff force is off,
\* the startup cache has an entry for it and the recomputed fingerprint
\* equals the cached one; otherwise (no entry, other fingerprint, hash
\* error, force) it is enqueued exactly once.
C8_ScannerDecisionRule ==
    /\ stats.files_found = Cardinality(ScanFound)
    /\ stats.files_skipped = Cardinality(hist.skipped)
    /\ \A p \in CsvFiles :
          /\ p \in hist.skipped <=>
                /\ p \in ScanDecided
                /\ ~force
                /\ p \in DOMAIN cache
                /\ hist.scanHash[p] = cache[p].hash
          /\ hist.enqueued[p] = IF p \in ScanDecided \ hist.skipped THEN 1 ELSE 0
          /\ (p \in ScanFound \ ScanDecided) => p \notin hist.skipped

C8_Witness ==
    /\ "a.csv" \in hist.skipped
    /\ hist.scanHash["b.csv"] = IoError
    /\ hist.enqueued = [p \in CsvFiles |-> IF p = "b.csv" THEN 1 ELSE 0]
    /\ stats.files_found = 2

\* C9: an absent cache file gives an empty mapping; a malformed cache file
\* stops the run before any stage starts: nothing is scanned, nothing is
\* written, and the cache file is left as it was.
C9_MalformedCacheIsFatal ==
    /\ hist.loadedFrom = "absent" => cache = EmptyCache
    /\ hist.loadedFrom = "malformed" =>
          /\ pc_parser = "idle"
          /\ pc_db = "idle"
          /\ stats.files_found = 0
          /\ TotalWritten = 0
          /\ disk.state = "malformed"

\* C10: the cache loaded after a crash holds every entry that the crashed
\* run had loaded at its startup or that its Stage 3 had finished, except
\* the entry of the batch in flight at the crash.
C10_CrashLosesAtMostInFlightEntry ==
    hist.crashLost = {}

\* ------------------------------------------------------------ C11 .. C20
\* The files whose decode task got as far as building a batch.
Decoded ==
    {p \in CsvFiles : tasks[p] = "sending" \/ p \in PushedPaths \/ p \in hist.lost}

\* The rows of a file that have a non-empty cell under a "timestamp" header.
TimestampedRows(path) ==
    {i \in 1..Len(FileRows(path)) :
        \E j \in 1..Len(FileHeaders(path)) :
            /\ FileHeaders(path)[j] = "timestamp"
            /\ FileRows(path)[i][j] # ""}

\* The same, and their number, for every csv file.
TimestampedRowsOf == [p \in CsvFiles |-> TimestampedRows(p)]

TimestampedCount == [p \in CsvFiles |-> Cardinality(TimestampedRows(p))]

RECURSIVE SumOf(_, _)
SumOf(f, S) ==
    IF S = {} THEN 0
    ELSE LET x == CHOOSE x \in S : TRUE IN f[x] + SumOf(f, S \ {x})

\* A test holds of every batch that exists between Stage 2 and Stage 3.
EveryBatch(Test(_)) ==
    /\ \A p \in CsvFiles : Test(taskBatch[p])
    /\ \A i \in 1..Len(recordQ) : Test(recordQ[i])
    /\ Test(dbBatch)

\* C11: a row whose timestamp is empty or missing is in no batch, is never
\* submitted to the store and is not counted: records_processed is the
\* number of rows with a non-empty timestamp over the decoded files.
C11_UntimestampedRowsDropped ==
    /\ EveryBatch(LAMBDA b : \A i \in 1..Len(b.records) :
                       b.records[i].row \in TimestampedRowsOf[b.path])
    /\ \A p \in CsvFiles : \A i \in 1..Len(hist.log[p]) :
          hist.log[p][i].row \in TimestampedRowsOf[p]
    /\ stats.records_processed = SumOf(TimestampedCount, Decoded)

C11_Witness ==
    /\ hist.written["a.csv"] = 2
    /\ "b.csv" \in hist.sunk
    /\ hist.written["b.csv"] = 0
    /\ stats.records_processed = 2

\* How many items of a queue satisfy a test.
CountIn(queue, Test(_)) == Cardinality({i \in 1..Len(queue) : Test(queue[i])})

\* C12: neither queue ever holds more than buffer_size items; a producer
\* that finds its queue full cannot complete its send, and keeps the item;
\* every item sent is in the queue exactly once until the consumer takes it,
\* and is never dropped or duplicated.
C12_QueuesBoundedAndLossless ==
    /\ Len(fileQ) <= buffer_size
    /\ Len(recordQ) <= buffer_size
    /\ (pc_main = "scan" /\ scanPending # "" /\ ~FileRxDropped
            /\ Len(fileQ) = buffer_size) => ~ENABLED ScanSend
    /\ \A p \in CsvFiles :
          /\ (tasks[p] = "sending" /\ ~RecordRxDropped
                  /\ Len(recordQ) = buffer_size) => ~ENABLED TaskSend(p)
          /\ CountIn(fileQ, LAMBDA x : x = p)
                + (IF tasks[p] # "none" THEN 1 ELSE 0) = hist.enqueued[p]
          /\ scanPending = p => hist.enqueued[p] = 0
          /\ CountIn(recordQ, LAMBDA b : b.path = p)
                + (IF dbBatch.path = p \/ p \in hist.sunk THEN 1 ELSE 0)
                = (IF p \in PushedPaths THEN 1 ELSE 0)
          /\ tasks[p] = "sending" =>
                /\ taskBatch[p] # NoBatch
                /\ p \notin PushedPaths
          /\ \A i \in 1..Len(recordQ) : recordQ[i].path = p =>
                Len(recordQ[i].records) = TimestampedCount[p]

C12_Witness ==
    /\ Len(fileQ) = buffer_size
    /\ scanPending = "b.csv"
    /\ ~FileRxDropped
    /\ ~ENABLED ScanSend

\* The raw cell of a row under a header (headers of a file are distinct).
RawCell(path, row, name) ==
    FileRows(path)[row][CHOOSE j \in 1..Len(FileHeaders(path)) :
                            FileHeaders(path)[j] = name]

\* The headers of a file other than "timestamp".
Columns(path) ==
    {FileHeaders(path)[j] : j \in 1..Len(FileHeaders(path))} \ {"timestamp"}

\* The raw cells of every row of every csv file, by column.
RawColumns ==
    [p \in CsvFiles |-> [i \in 1..Len(FileRows(p)) |->
        [n \in Columns(p) |-> RawCell(p, i, n)]]]

\* C13: every write submitted holds each non-timestamp column of its row
\* exactly once: as a numeric field when the raw value parses as f64, as a
\* tag with the raw value otherwise, whatever the column holds in other rows.
C13_ColumnsClassifiedOnce ==
    \A p \in CsvFiles : \A i \in 1..Len(hist.log[p]) :
        LET q == hist.log[p][i].query
            raw == RawColumns[p][hist.log[p][i].row]
        IN /\ DOMAIN q.fields \cup DOMAIN q.tags = DOMAIN raw
           /\ DOMAIN q.fields \cap DOMAIN q.tags = {}
           /\ \A n \in DOMAIN raw :
                 IF raw[n] \in F64Literals
                 THEN n \in DOMAIN q.fields /\ q.fields[n] = <<"f64", raw[n]>>
                 ELSE n \in DOMAIN q.tags /\ q.tags[n] = raw[n]

\* cpu is a field in the first write of a.csv and a tag in the second.
C13_Witness ==
    /\ Len(hist.log["a.csv"]) = 2
    /\ "cpu" \in DOMAIN hist.log["a.csv"][1].query.fields
    /\ "cpu" \in DOMAIN hist.log["a.csv"][2].query.tags
    /\ "mem" \in DOMAIN hist.log["a.csv"][2].query.fields
    /\ hist.log["a.csv"][1].query.tags["note"] = ""

\* The number of records of the batch pushed for a path (0 when none was).
PushedLen(p) ==
    IF p \in PushedPaths THEN (CHOOSE t \in hist.pushed : t[1] = p)[3] ELSE 0

\* The raw timestamp of every row of every csv file ("" without the column).
RawTimestamps ==
    [p \in CsvFiles |-> [i \in 1..Len(FileRows(p)) |->
        IF i \in TimestampedRows(p) THEN RawCell(p, i, "timestamp") ELSE ""]]

\* C14: Stage 3 submits every record of a received batch exactly once, in
\* one pass, whatever the earlier writes returned and whether or not the
\* timestamp parses (the write then carries the current time); every write
\* bumps exactly one of the two counters, so successes + failures is the
\* batch size, which is what the cache entry and the totals record.
C14_EveryRecordSubmittedOnce ==
    /\ pc_db \in {"write", "save"} =>
          /\ successful + failed = dbIdx - 1
          /\ Len(hist.log[dbBatch.path]) = dbIdx - 1
          /\ dbIdx - 1 <= Len(dbBatch.records)
          /\ pc_db = "save" => dbIdx - 1 = Len(dbBatch.records)
          /\ \A i \in 1..(dbIdx - 1) :
                hist.log[dbBatch.path][i].row = dbBatch.records[i].row
    /\ \A p \in hist.sunk :
          /\ Len(hist.log[p]) = PushedLen(p)
          /\ Cardinality({hist.log[p][i].row : i \in 1..Len(hist.log[p])})
                = PushedLen(p)
          /\ updated_cache[p].records_count = PushedLen(p)
    /\ \A p \in CsvFiles : \A i \in 1..Len(hist.log[p]) :
          LET ts == RawTimestamps[p][hist.log[p][i].row]
              q == hist.log[p][i].query
          IN IF ts \in Rfc3339Timestamps
             THEN q.timestamp.instant = ts
             ELSE q.timestamp = Timestamp("Nanoseconds", run)
    /\ stats.successful_inserts + stats.failed_inserts
          = SumOf([p \in CsvFiles |-> PushedLen(p)], hist.sunk)

\* a.csv: the first write failed or the second did, both were submitted,
\* the second with the current time for its unparsable timestamp.
C14_Witness ==
    /\ pc_db = "save"
    /\ dbBatch.path = "a.csv"
    /\ successful = 1
    /\ failed = 1
    /\ Len(hist.log["a.csv"]) = 2
    /\ hist.log["a.csv"][2].query.timestamp = Timestamp("Nanoseconds", run)
    /\ updated_cache["a.csv"].records_count = 2

\* C15: a file whose hash or parse fails in its decode task is counted in
\* files_processed and leaves no other trace: no batch, no records counted,
\* no write, no cache entry made or changed; every other file that was
\* pulled is decoded in full and pushed.
C15_FailedDecodeLeavesNoTrace ==
    /\ stats.files_processed = Cardinality({p \in CsvFiles : tasks[p] # "none"})
    /\ stats.records_processed =
          SumOf(TimestampedCount,
                {p \in CsvFiles : tasks[p] \in {"sending", "done"}}
                    \ hist.decodeFailed)
    /\ \A p \in hist.decodeFailed :
          /\ tasks[p] = "done"
          /\ EveryBatch(LAMBDA b : b.path # p)
          /\ p \notin PushedPaths
          /\ hist.written[p] = 0
          /\ p \notin hist.sunk
          /\ pc_db \notin {"idle", "init"} =>
                /\ p \in DOMAIN updated_cache <=> p \in DOMAIN cache
                /\ p \in DOMAIN cache => updated_cache[p] = cache[p]
    /\ \A p \in CsvFiles \ hist.decodeFailed :
          tasks[p] = "done" =>
              /\ p \in PushedPaths
              /\ PushedLen(p) = TimestampedCount[p]
              /\ pc_db = "done" => p \in hist.sunk

\* b.csv fails in Stage 2 of a forced run that has it in its cache; a.csv
\* goes all the way.
C15_Witness ==
    /\ "b.csv" \in hist.decodeFailed
    /\ stats.files_processed = 2
    /\ pc_db = "done"
    /\ "a.csv" \in hist.sunk
    /\ hist.written["a.csv"] = 2
    /\ "b.csv" \in DOMAIN updated_cache
    /\ updated_cache["b.csv"] = cache["b.csv"]

\* C16: the records of one file reach the store in the order of their rows
\* in the file, in every batch on the way and in the writes themselves.
\* Between files there is no such order (see the witness).
C16_RowOrderWithinFile ==
    /\ EveryBatch(LAMBDA b : \A i, j \in 1..Len(b.records) :
                       i < j => b.records[i].row < b.records[j].row)
    /\ \A p \in CsvFiles : \A i, j \in 1..Len(hist.log[p]) :
          i < j => hist.log[p][i].row < hist.log[p][j].row

\* Rows 1 and 3 of a.csv were written in that order, after the whole batch
\* of b.csv, which the scanner found later.
C16_Witness ==
    /\ hist.log["a.csv"] # << >>
    /\ Len(hist.log["a.csv"]) = 2
    /\ hist.log["a.csv"][1].row = 1
    /\ hist.log["a.csv"][2].row = 3
    /\ pc_db = "write"
    /\ dbBatch.path = "a.csv"
    /\ "b.csv" \in hist.sunk
    /\ WalkPos("a.csv") < WalkPos("b.csv")

\* C17: the decode tasks in flight (spawned for a pulled path and not yet
\* finished, those waiting in record_tx.send included) are never more than
\* the parser pool's worker threads.
C17_InFlightWithinPoolWidth ==
    Cardinality(DecodeTasksInFlight) <= ParserThreads

\* The fingerprint carried by the batch pushed for a path.
PushedHash(p) == (CHOOSE t \in hist.pushed : t[1] = p)[2]

\* Stage 3's cache differs from the cache loaded at startup exactly in the
\* entries of the batches it has finished: each made after the last record
\* of the batch was submitted, from the batch's fingerprint and its
\* successes + failures.
EntriesFromFinishedBatches ==
    pc_db \notin {"idle", "init"} =>
        /\ DOMAIN updated_cache = DOMAIN cache \cup hist.sunk
        /\ \A p \in DOMAIN updated_cache :
              IF p \in hist.sunk
              THEN /\ p \in PushedPaths
                   /\ Len(hist.log[p]) = PushedLen(p)
                   /\ updated_cache[p] =
                         FileMetadata(p, PushedHash(p), run, PushedLen(p))
              ELSE updated_cache[p] = cache[p]
        /\ pc_db = "save" =>
              updated_cache[dbBatch.path].records_count = successful + failed

\* C18 as stated: entries are made by Stage 3 only, after the batch's last
\* record, from the batch's fingerprint and successes + failures, and when
\* the next batch is taken the cache file holds the full snapshot.
C18_SnapshotPersistedBeforeNextBatch ==
    /\ EntriesFromFinishedBatches
    /\ (pc_db = "write" /\ hist.sunk # {}) =>
          disk = CacheFile("valid", updated_cache)

\* C18 amended: ... and when the next batch is taken a save of the full
\* snapshot has been attempted; when the latest save succeeded the cache
\* file holds the full snapshot.
C18_SaveAttemptedBeforeNextBatch ==
    /\ EntriesFromFinishedBatches
    /\ pc_db \in {"recv", "write"} =>
          /\ hist.sunk # {} => hist.lastSave \in {"ok", "failed"}
          /\ hist.lastSave = "ok" => disk = CacheFile("valid", updated_cache)

C18_Witness ==
    /\ pc_db = "write"
    /\ dbBatch.path = "b.csv"
    /\ "a.csv" \in hist.sunk
    /\ hist.lastSave = "ok"
    /\ disk.state = "valid"
    /\ disk.entries["a.csv"] = FileMetadata("a.csv", FileDigest("a.csv"), run, 2)

\* C19: a failed save_cache stops nothing: the entry stays in Stage 3's
\* cache, every pushed batch is still finished, and once a later save
\* succeeds the cache file holds the entry of every batch finished so far,
\* those whose own save failed included.
C19_FailedSaveIsNotFatal ==
    /\ \A p \in hist.saveFailed :
          /\ p \in hist.sunk
          /\ p \in DOMAIN updated_cache
          /\ updated_cache[p] = FileMetadata(p, PushedHash(p), run, PushedLen(p))
    /\ pc_db = "done" => PushedPaths \subseteq hist.sunk
    /\ (hist.lastSave = "ok" /\ pc_db \notin {"save", "finalsave"}) =>
          /\ disk.state = "valid"
          /\ \A p \in hist.sunk :
                /\ p \in DOMAIN disk.entries
                /\ disk.entries[p] = updated_cache[p]

\* The save after a.csv failed, the save after b.csv succeeded and wrote
\* both entries.
C19_Witness ==
    /\ hist.saveFailed = {"a.csv"}
    /\ hist.sunk = {"a.csv", "b.csv"}
    /\ hist.lastSave = "ok"
    /\ pc_db = "recv"
    /\ disk.state = "valid"
    /\ disk.entries["a.csv"] = FileMetadata("a.csv", FileDigest("a.csv"), run, 2)
    /\ "b.csv" \in DOMAIN disk.entries

\* C20: every path of the cache loaded at startup is in Stage 3's cache and
\* in every snapshot in the cache file, during the run and at its end:
\* entries are inserted or overwritten, never removed.
C20_LoadedKeysNeverRemoved ==
    /\ pc_db \notin {"idle", "init"} => DOMAIN cache \subseteq DOMAIN updated_cache
    /\ (pc_main # "start" /\ disk.state = "valid") =>
          DOMAIN cache \subseteq DOMAIN disk.entries

\* The final snapshot of a run that loaded entries for a.csv (changed since)
\* and gone.csv (no longer there) and finished a.csv's batch.
C20_Witness ==
    /\ pc_db = "done"
    /\ hist.lastSave = "ok"
    /\ "gone.csv" \in DOMAIN cache
    /\ "a.csv" \in hist.sunk
    /\ disk.state = "valid"
    /\ disk.entries["a.csv"].last_processed = run
    /\ "gone.csv" \in DOMAIN disk.entries
    /\ disk.entries["gone.csv"] = cache["gone.csv"]

\* ------------------------------------------------------------ C21 .. C22
\* C21: Stage 3 sends its completion signal only after Stage 2 has sent its
\* own and returned (Stage 2 holds a record sender until then), and main
\* goes scan, await parser, await writer, done: it waits for the parser
\* only with the file channel closed, for the writer only with the parser's
\* signal, and is done only with both.
C21_WriterSignalsAfterParser ==
    /\ pc_db \in {"finalsave", "signal", "done"} =>
          /\ parser_complete = "sent"
          /\ pc_parser = "exited"
    /\ db_complete = "sent" => parser_complete = "sent"
    /\ parser_complete = "sent" => (~file_tx /\ pc_main # "scan")
    /\ pc_main \in {"await_parser", "await_db", "done"} =>
          (scanIdx > Len(ScanDir) /\ ~file_tx)
    /\ pc_main \in {"await_db", "done"} => parser_complete = "sent"
    /\ pc_main = "done" => db_complete = "sent"

\* Stage 3 has signalled while main is still waiting for the parser's
\* signal, which Stage 2 sent before.
C21_Witness ==
    /\ pc_main = "await_parser"
    /\ db_complete = "sent"
    /\ parser_complete = "sent"
    /\ hist.sunk = CsvFiles

\* C22: the counters read for the final report add up, files_found =
\* files_skipped + files_processed and successful_inserts + failed_inserts =
\* records_processed, and no counter changes afterwards; before the report
\* the two sums are at most files_found and records_processed.
C22_ReportConsistentAndFinal ==
    /\ stats.files_skipped + stats.files_processed <= stats.files_found
    /\ stats.successful_inserts + stats.failed_inserts <= stats.records_processed
    /\ hist.reported =>
          /\ stats = hist.report
          /\ hist.report.files_found =
                hist.report.files_skipped + hist.report.files_processed
          /\ hist.report.successful_inserts + hist.report.failed_inserts =
                hist.report.records_processed

\* A report over a skipped file and a processed one with a failed write.
C22_Witness ==
    /\ hist.reported
    /\ pc_main = "done"
    /\ hist.report.files_found = 2
    /\ hist.report.files_skipped = 1
    /\ hist.report.files_processed = 1
    /\ hist.report.records_processed = 2
    /\ hist.report.failed_inserts = 1

====
